---- MODULE Spec2Model ----
(***************************************************************************)
(* Model of app.js: the /submit handler, processImageReplacement and the   *)
(* pure helpers extractImageUrls and escapeRegExp.                         *)
(*                                                                         *)
(* A JavaScript string is a sequence of one-character strings, so that the *)
(* two regular expressions of the program (the image-tag pattern and the   *)
(* escaped literal pattern) are evaluated character by character.          *)
(***************************************************************************)
EXTENDS Integers, Sequences, FiniteSets, TLC

\* Longest article body, counted in fragments of Fragments.
MaxPieces == 3

----------------------------------------------------------------------------
(* Strings                                                                 *)

\* Does the literal lit stand in s at position p (1-based)?
IsAt(s, p, lit) ==
    /\ p >= 1
    /\ p + Len(lit) - 1 <= Len(s)
    /\ \A i \in 1..Len(lit) : s[p + i - 1] = lit[i]

\* Case folding of the letters in use: the i flag of imageRegex, and
\* toLowerCase on the answer of the comparison service.
ToLower(c) ==
    CASE c = "I" -> "i"
      [] c = "T" -> "t"
      [] c = "U" -> "u"
      [] c = "E" -> "e"
      [] c = "M" -> "m"
      [] c = "G" -> "g"
      [] c = "S" -> "s"
      [] c = "R" -> "r"
      [] c = "C" -> "c"
      [] OTHER -> c

LowerSeq(s) == [i \in 1..Len(s) |-> ToLower(s[i])]

\* The same for a lower-case literal, letters compared after case folding.
IsAtCI(s, p, lit) ==
    /\ p >= 1
    /\ p + Len(lit) - 1 <= Len(s)
    /\ \A i \in 1..Len(lit) : ToLower(s[p + i - 1]) = lit[i]

\* Length of the longest run of characters other than stop starting at p:
\* what a greedy [^stop]+ first consumes.
RECURSIVE RunLen(_, _, _)
RunLen(s, p, stop) ==
    IF p > Len(s) \/ s[p] = stop THEN 0 ELSE 1 + RunLen(s, p + 1, stop)

SetMax(S) == CHOOSE x \in S : \A y \in S : y <= x

SetMin(S) == CHOOSE x \in S : \A y \in S : x <= y

----------------------------------------------------------------------------
(* extractImageUrls: /<img[^>]+src="([^"]+)"/gi                            *)

ImgOpen == <<"<", "i", "m", "g">>

SrcAttr == <<"s", "r", "c", "=", "\"">>

\* The lengths k of [^>]+ for which the rest of imageRegex matches, the
\* pattern starting at p.  [^"]+ is greedy and is followed by a quote, so it
\* can only end at the first quote after its start: its length is fixed by k.
ImgTagLens(s, p) ==
    IF ~IsAtCI(s, p, ImgOpen) THEN {}
    ELSE {k \in 1..RunLen(s, p + Len(ImgOpen), ">") :
            LET a == p + Len(ImgOpen) + k
                q == a + Len(SrcAttr)
                j == RunLen(s, q, "\"")
            IN  /\ IsAtCI(s, a, SrcAttr)
                /\ j >= 1
                /\ q + j <= Len(s)}

\* One match of imageRegex at p: the capture group and the new lastIndex.
\* [^>]+ is greedy: backtracking keeps the longest k that lets the rest match.
ImgMatchAt(s, p) ==
    LET k == SetMax(ImgTagLens(s, p))
        q == p + Len(ImgOpen) + k + Len(SrcAttr)
        j == RunLen(s, q, "\"")
    IN  [capture |-> SubSeq(s, q, q + j - 1), lastIndex |-> q + j + 1]

\* The while loop over imageRegex.exec(html): every match, left to right,
\* each search resuming at lastIndex.
RECURSIVE ExecAll(_, _)
ExecAll(s, from) ==
    LET starts == {p \in from..Len(s) : ImgTagLens(s, p) # {}}
    IN  IF starts = {} THEN <<>>
        ELSE LET m == ImgMatchAt(s, SetMin(starts))
             IN  <<m.capture>> \o ExecAll(s, m.lastIndex)

Range(f) == {f[i] : i \in DOMAIN f}

\* Variant of the set conversion that keeps the last occurrence of each url.
RECURSIVE DedupeKeepLast(_)
DedupeKeepLast(urls) ==
    IF urls = <<>> THEN <<>>
    ELSE LET h == urls[1]
             t == Tail(urls)
         IN  IF h \in Range(t) THEN DedupeKeepLast(t)
             ELSE <<h>> \o DedupeKeepLast(t)

\* [...new Set(urls)]: a Set iterates in insertion order, and inserting a
\* value it already holds changes nothing.
RECURSIVE NewSet(_)
NewSet(urls) ==
    IF urls = <<>> THEN <<>>
    ELSE LET front == NewSet(SubSeq(urls, 1, Len(urls) - 1))
             l == urls[Len(urls)]
         IN  IF l \in Range(front) THEN front ELSE Append(front, l)

extractImageUrls(html) == NewSet(ExecAll(html, 1))

----------------------------------------------------------------------------
(* escapeRegExp, new RegExp(..., 'g'), String match and String replace     *)

\* The character class of escapeRegExp: . * + ? ^ $ { } ( ) | [ ] \
RegExpSpecial ==
    {".", "*", "+", "?", "^", "$", "{", "}", "(", ")", "|", "[", "]", "\\"}

\* string.replace(/[.*+?^${}()|[\]\\]/g, '\\$&'): a backslash before every
\* special character.
RECURSIVE escapeRegExp(_)
escapeRegExp(string) ==
    IF string = <<>> THEN <<>>
    ELSE (IF string[1] \in RegExpSpecial THEN <<"\\", string[1]>>
          ELSE <<string[1]>>) \o escapeRegExp(Tail(string))

\* new RegExp(source): the atoms of the pattern.  A backslash makes the next
\* character a literal, an unescaped dot matches any character, every other
\* character is a literal.  (The other operators of the pattern language are
\* all in RegExpSpecial; none of them is in the alphabet of the references.)
RECURSIVE RegExpAtoms(_)
RegExpAtoms(source) ==
    IF source = <<>> THEN <<>>
    ELSE IF source[1] = "\\" /\ Len(source) >= 2
         THEN <<[any |-> FALSE, ch |-> source[2]]>>
                  \o RegExpAtoms(SubSeq(source, 3, Len(source)))
    ELSE IF source[1] = "."
         THEN <<[any |-> TRUE, ch |-> "."]>> \o RegExpAtoms(Tail(source))
    ELSE <<[any |-> FALSE, ch |-> source[1]]>> \o RegExpAtoms(Tail(source))

AtomsMatchAt(s, p, atoms) ==
    /\ p + Len(atoms) - 1 <= Len(s)
    /\ \A i \in 1..Len(atoms) :
          IF atoms[i].any THEN s[p + i - 1] # "\n" ELSE s[p + i - 1] = atoms[i].ch

\* Start positions of the matches of a global regex, left to right, each
\* search resuming after the previous match (the pattern is never empty: a
\* reference is the capture of [^"]+).
RECURSIVE MatchStarts(_, _, _)
MatchStarts(s, atoms, from) ==
    LET starts == {p \in from..Len(s) : AtomsMatchAt(s, p, atoms)}
    IN  IF starts = {} THEN <<>>
        ELSE LET p == SetMin(starts)
             IN  <<p>> \o MatchStarts(s, atoms, p + Len(atoms))

\* The replacement string of String.prototype.replace for the match of
\* length n at p: $$ is a dollar, $& the match, $` the text before it, $' the
\* text after it; the pattern has no group, so any other $ stays as written.
RECURSIVE ExpandReplacement(_, _, _, _)
ExpandReplacement(repl, s, p, n) ==
    IF repl = <<>> THEN <<>>
    ELSE IF repl[1] = "$" /\ Len(repl) >= 2 /\ repl[2] \in {"$", "&", "`", "'"}
         THEN (CASE repl[2] = "$" -> <<"$">>
                 [] repl[2] = "&" -> SubSeq(s, p, p + n - 1)
                 [] repl[2] = "`" -> SubSeq(s, 1, p - 1)
                 [] repl[2] = "'" -> SubSeq(s, p + n, Len(s)))
              \o ExpandReplacement(SubSeq(repl, 3, Len(repl)), s, p, n)
    ELSE <<repl[1]>> \o ExpandReplacement(Tail(repl), s, p, n)

\* s.replace(regex, repl) with a global regex.
RECURSIVE StringReplace(_, _, _, _)
StringReplace(s, atoms, repl, from) ==
    LET starts == {p \in from..Len(s) : AtomsMatchAt(s, p, atoms)}
    IN  IF starts = {} THEN SubSeq(s, from, Len(s))
        ELSE LET p == SetMin(starts)
                 n == Len(atoms)
             IN  SubSeq(s, from, p - 1)
                     \o ExpandReplacement(repl, s, p, n)
                     \o StringReplace(s, atoms, repl, p + n)

\* Variant of the forEach body that counts the occurrences after replacing.
CountAfterReplace(acc, matchUrl, newImageUrl) ==
    LET regex == RegExpAtoms(escapeRegExp(matchUrl))
        body == StringReplace(acc.updatedBody, regex, newImageUrl, 1)
    IN  [updatedBody |-> body,
         replacementCount |->
             acc.replacementCount + Len(MatchStarts(body, regex, 1))]

\* The body of matches.forEach: count the occurrences in the body as it is
\* now, replace them, add the count.
RewriteStep(acc, matchUrl, newImageUrl) ==
    LET regex == RegExpAtoms(escapeRegExp(matchUrl))
        occurrences == Len(MatchStarts(acc.updatedBody, regex, 1))
    IN  [updatedBody |-> StringReplace(acc.updatedBody, regex, newImageUrl, 1),
         replacementCount |-> acc.replacementCount + occurrences]

\* Step 5: let updatedBody = article.body, replacementCount = 0, then the
\* forEach over matches in order.
RECURSIVE Rewrite(_, _, _)
Rewrite(body, ms, newImageUrl) ==
    IF ms = <<>> THEN [updatedBody |-> body, replacementCount |-> 0]
    ELSE RewriteStep(Rewrite(body, SubSeq(ms, 1, Len(ms) - 1), newImageUrl),
                     ms[Len(ms)], newImageUrl)

----------------------------------------------------------------------------
(* Inputs                                                                  *)

ImgTag(url) == ImgOpen \o <<" ">> \o SrcAttr \o url \o <<"\"", ">">>

\* The fragments article bodies are built from: three image tags (one in
\* upper case, its reference holding a regex-special character, the
\* reference of the first a prefix of that of the second), loose text equal
\* to a reference, a tag left open, and a lone quote.
Fragments ==
    {ImgTag(<<"a">>),
     ImgTag(<<"a", "b">>),
     <<"<", "I", "M", "G", " ", "S", "R", "C", "=", "\"", "b", ".", "\"", ">">>,
     <<"a">>,
     ImgOpen \o <<" ">> \o SrcAttr,
     <<"\"">>}

RECURSIVE Concat(_)
Concat(ss) == IF ss = <<>> THEN <<>> ELSE ss[1] \o Concat(Tail(ss))

\* article.body as the content store may hold it.
Bodies ==
    UNION {{Concat(ss) : ss \in [1..n -> Fragments]} : n \in 0..MaxPieces}

\* Values of new_image_url: a fresh reference, a reference of the article,
\* and one holding a replacement pattern of String.prototype.replace.
NewUrls == {<<"n">>, <<"a">>, <<"$", "&">>}

\* request.body of POST /submit.  An absent field and an empty one are both
\* the empty string: the handler tests them with ! only.
Requests ==
    [component_id : {"process_button", "restart_button"},
     has_input_values : BOOLEAN,
     article_id : {<<>>, <<"1">>},
     old_image_url : {<<>>, <<"o">>},
     new_image_url : {<<>>} \cup NewUrls]

\* How a remote call can fail: response.ok is false, or fetch itself rejects.
Failures == {"status", "transport"}

\* What the comparison service can do: answer some text in
\* data.content[0].text, answer a document without it, or not answer.
Answers ==
    {<<"t", "r", "u", "e">>,
     <<" ", "T", "R", "U", "E", "\n">>,
     <<"f", "a", "l", "s", "e">>,
     <<"t", "r", "u", "e", ".">>}

Outcomes ==
    [kind : {"text"}, text : Answers]
        \cup [kind : {"malformed", "transport"}, text : {<<>>}]

----------------------------------------------------------------------------
(* State                                                                   *)

VARIABLES
    pc,                \* where the /submit handler stands
    req,               \* request.body
    stored,            \* the article body held by the content store
    article,           \* article: <<>> while there is none, else <<article.body>>
    imageUrls,         \* extractImageUrls(article.body)
    idx,               \* position of the for..of loop in imageUrls
    matches,           \* matches
    updatedBody,       \* updatedBody after the forEach
    replacementCount,  \* replacementCount after the forEach
    result,            \* what processImageReplacement returned or threw
    response,          \* what response.send was given
    calls,             \* the remote calls that have ended so far, in order
    pending,           \* the remote calls begun and not yet ended
    answer             \* what the comparison service did, until
                       \* compareImagesWithAI returns

vars ==
    <<pc, req, stored, article, imageUrls, idx, matches, updatedBody,
      replacementCount, result, response, calls, pending, answer>>

NoRequest ==
    [component_id |-> "", has_input_values |-> FALSE, article_id |-> <<>>,
     old_image_url |-> <<>>, new_image_url |-> <<>>]

NoResult ==
    [kind |-> "none", success |-> FALSE, message |-> "", imagesFound |-> 0,
     matchesFound |-> 0, replacements |-> 0]

NoResponse ==
    [canvas |-> "none", header |-> "", text |-> "", details |-> <<0, 0, 0>>]

Summary(success, message, found, matched, replaced) ==
    [kind |-> "summary", success |-> success, message |-> message,
     imagesFound |-> found, matchesFound |-> matched, replacements |-> replaced]

\* throw error, out of processImageReplacement (the catch logs and rethrows).
Raised(message) ==
    [kind |-> "raised", success |-> FALSE, message |-> message,
     imagesFound |-> 0, matchesFound |-> 0, replacements |-> 0]

\* One remote call: which, with what argument (the image url, the article
\* id, the body sent), and whether it succeeded.
Call(op, arg, ok) == [op |-> op, arg |-> arg, ok |-> ok]

\* A remote call begun: which, and with what argument.
Request(op, arg) == [op |-> op, arg |-> arg]

\* The function goes on to its next await: the call it waits for is the one
\* call pending.
Await(p, op, arg) ==
    /\ pc' = p
    /\ pending' = {Request(op, arg)}

NoAnswer == [kind |-> "none", text |-> <<>>]

Init ==
    /\ pc = "idle"
    /\ req = NoRequest
    /\ stored \in Bodies
    /\ article = <<>>
    /\ imageUrls = <<>>
    /\ idx = 0
    /\ matches = <<>>
    /\ updatedBody = <<>>
    /\ replacementCount = 0
    /\ result = NoResult
    /\ response = NoResponse
    /\ calls = <<>>
    /\ pending = {}
    /\ answer = NoAnswer

----------------------------------------------------------------------------
(* The /submit handler                                                     *)

\* The canvas sent after "Please fill in all required fields".
ValidationCanvas ==
    [canvas |-> "error", header |-> "Error",
     text |-> "Please fill in all required fields", details |-> <<0, 0, 0>>]

InitialCanvas ==
    [canvas |-> "initial", header |-> "AI Image Replacer",
     text |-> "Replace images in articles using AI visual matching",
     details |-> <<0, 0, 0>>]

\* What the client gets when the promise of the handler rejects and the
\* framework answers for it (Express 5 passes the rejection to its error
\* handler; Express 4 does not, and nothing is sent).
ServerError ==
    [canvas |-> "none", header |-> "500", text |-> "Internal Server Error",
     details |-> <<0, 0, 0>>]

\* The try/catch of the handler around processImageReplacement: the success
\* canvas for a returned summary, the error canvas for a thrown error.
CanvasOf(res) ==
    IF res.kind = "summary"
    THEN [canvas |-> "success",
          header |-> IF res.success THEN "Success!" ELSE "Completed",
          text |-> res.message,
          details |-> <<res.imagesFound, res.matchesFound, res.replacements>>]
    ELSE [canvas |-> "error", header |-> "Error", text |-> res.message,
          details |-> <<0, 0, 0>>]

\* processImageReplacement ends with res, and the handler, resumed from its
\* await, sends the canvas.
Finish(res) ==
    /\ result' = res
    /\ response' = CanvasOf(res)
    /\ pc' = "responded"
    /\ pending' = {}

\* app.post("/submit"), up to its first await.
Submit(r) ==
    /\ pc = "idle"
    /\ req' = r
    /\ IF r.component_id # "process_button"
       THEN /\ response' = InitialCanvas
            /\ pc' = "responded"
            /\ pending' = {}
       ELSE IF ~r.has_input_values
       THEN \* destructuring undefined throws in the async handler, outside
            \* its try: the promise rejects and the handler sends nothing
            /\ response' \in {NoResponse, ServerError}
            /\ pc' = "unhandled"
            /\ pending' = {}
       ELSE IF r.article_id = <<>> \/ r.old_image_url = <<>>
                \/ r.new_image_url = <<>>
       THEN /\ response' = ValidationCanvas
            /\ pc' = "responded"
            /\ pending' = {}
       ELSE /\ response' = response
            /\ Await("fetchArticle", "getArticle", r.article_id)
    /\ UNCHANGED <<stored, article, imageUrls, idx, matches, updatedBody,
                   replacementCount, result, calls, answer>>

----------------------------------------------------------------------------
(* processImageReplacement                                                 *)

FailureMessage(f, message) == IF f = "status" THEN message ELSE "fetch failed"

\* Step 1, fetchIntercomArticle throws.
FetchArticleFail(f) ==
    /\ pc = "fetchArticle"
    /\ calls' = Append(calls, Call("getArticle", req.article_id, FALSE))
    /\ Finish(Raised(FailureMessage(f, "Failed to fetch article")))
    /\ UNCHANGED <<req, stored, article, imageUrls, idx, matches, updatedBody,
                   replacementCount, answer>>

\* Step 1, the store answers with a null document: if (!article) throw.
FetchArticleNull ==
    /\ pc = "fetchArticle"
    /\ calls' = Append(calls, Call("getArticle", req.article_id, TRUE))
    /\ Finish(Raised("Article not found"))
    /\ UNCHANGED <<req, stored, article, imageUrls, idx, matches, updatedBody,
                   replacementCount, answer>>

\* Variant of steps 1 and 2 without the return for a body without images.
FetchArticleNoReturn ==
    /\ pc = "fetchArticle"
    /\ calls' = Append(calls, Call("getArticle", req.article_id, TRUE))
    /\ article' = <<stored>>
    /\ imageUrls' = extractImageUrls(stored)
    /\ Await("loadReference", "loadReference", req.old_image_url)
    /\ UNCHANGED <<req, stored, idx, matches, updatedBody, replacementCount,
                   result, response, answer>>

\* Steps 1 and 2: the article arrives, its image urls are extracted, and a
\* body without images ends the run.
FetchArticleOk ==
    /\ pc = "fetchArticle"
    /\ calls' = Append(calls, Call("getArticle", req.article_id, TRUE))
    /\ article' = <<stored>>
    /\ imageUrls' = extractImageUrls(stored)
    /\ IF imageUrls' = <<>>
       THEN Finish(Summary(FALSE, "No images found in the article", 0, 0, 0))
       ELSE /\ Await("loadReference", "loadReference", req.old_image_url)
            /\ UNCHANGED <<result, response>>
    /\ UNCHANGED <<req, stored, idx, matches, updatedBody, replacementCount,
                   answer>>

\* Variant of step 3 that reports the failure in a summary.
LoadReferenceSwallowed(f) ==
    /\ pc = "loadReference"
    /\ calls' = Append(calls, Call("loadReference", req.old_image_url, FALSE))
    /\ Finish(Summary(FALSE, FailureMessage(f, "Failed to load image"),
                      Len(imageUrls), 0, 0))
    /\ UNCHANGED <<req, stored, article, imageUrls, idx, matches, updatedBody,
                   replacementCount, answer>>

\* Variant of step 3 that takes the failure like that of a candidate and
\* goes on into the loop.
LoadReferenceFailContinues(f) ==
    /\ pc = "loadReference"
    /\ calls' = Append(calls, Call("loadReference", req.old_image_url, FALSE))
    /\ matches' = <<>>
    /\ idx' = 1
    /\ Await("loadCandidate", "loadCandidate", imageUrls[1])
    /\ UNCHANGED <<req, stored, article, imageUrls, updatedBody,
                   replacementCount, result, response, answer>>

\* Step 3, loadImageAsBase64(oldImageUrl) throws: nothing catches it before
\* the outer catch, which rethrows.
LoadReferenceFail(f) ==
    /\ pc = "loadReference"
    /\ calls' = Append(calls, Call("loadReference", req.old_image_url, FALSE))
    /\ Finish(Raised(FailureMessage(f, "Failed to load image")))
    /\ UNCHANGED <<req, stored, article, imageUrls, idx, matches, updatedBody,
                   replacementCount, answer>>

\* Step 5 and the call of updateIntercomArticle, for the matches ms.
RewriteAndUpdate(ms) ==
    LET rw == Rewrite(article[1], ms, req.new_image_url)
    IN  /\ updatedBody' = rw.updatedBody
        /\ replacementCount' = rw.replacementCount
        /\ Await("update", "updateArticle", rw.updatedBody)
        /\ UNCHANGED <<result, response>>

\* Variant of the code after the loop without the return for no match.
AfterLoopNoReturn(ms) == RewriteAndUpdate(ms)

\* The code after the loop, up to the next await, with the matches ms: the
\* return for no match, or step 5 and the call of updateIntercomArticle.
AfterLoop(ms) ==
    IF ms = <<>>
    THEN /\ Finish(Summary(FALSE, "No matching images found in the article",
                           Len(imageUrls), 0, 0))
         /\ UNCHANGED <<updatedBody, replacementCount>>
    ELSE RewriteAndUpdate(ms)

\* Step 3 succeeds: const matches = [], and the loop starts on the first
\* url (idx counts the iterations begun).
LoadReferenceOk ==
    /\ pc = "loadReference"
    /\ calls' = Append(calls, Call("loadReference", req.old_image_url, TRUE))
    /\ matches' = <<>>
    /\ idx' = 1
    /\ IF imageUrls = <<>>
       THEN AfterLoop(<<>>)
       ELSE /\ Await("loadCandidate", "loadCandidate", imageUrls[1])
            /\ UNCHANGED <<updatedBody, replacementCount, result, response>>
    /\ UNCHANGED <<req, stored, article, imageUrls, answer>>

\* Variant of the end of an iteration that rewrites and updates as soon as
\* there is a match, the later urls not yet looked at.
NextCandidateEager(ms) ==
    /\ idx' = idx + 1
    /\ IF ms # <<>>
       THEN RewriteAndUpdate(ms)
       ELSE IF idx < Len(imageUrls)
       THEN /\ Await("loadCandidate", "loadCandidate", imageUrls[idx + 1])
            /\ UNCHANGED <<updatedBody, replacementCount, result, response>>
       ELSE AfterLoop(ms)

\* The end of one iteration of the for..of loop with the matches ms: the next
\* url, or, after the last one, the code after the loop.
NextCandidate(ms) ==
    /\ idx' = idx + 1
    /\ IF idx < Len(imageUrls)
       THEN /\ Await("loadCandidate", "loadCandidate", imageUrls[idx + 1])
            /\ UNCHANGED <<updatedBody, replacementCount, result, response>>
       ELSE AfterLoop(ms)

\* Variant of the loop body without its try/catch: the error of the
\* candidate reaches the outer catch, which rethrows.
LoadCandidateThrows(f) ==
    /\ pc = "loadCandidate"
    /\ calls' = Append(calls, Call("loadCandidate", imageUrls[idx], FALSE))
    /\ Finish(Raised(FailureMessage(f, "Failed to load image")))
    /\ UNCHANGED <<req, stored, article, imageUrls, idx, matches, updatedBody,
                   replacementCount, answer>>

\* Variant of the loop body that loads the image of a url a second time when
\* the first load failed.
LoadCandidateRetry(f) ==
    /\ pc = "loadCandidate"
    /\ calls' = Append(calls, Call("loadCandidate", imageUrls[idx], FALSE))
    /\ matches' = matches
    /\ IF Call("loadCandidate", imageUrls[idx], FALSE) \notin Range(calls)
       THEN /\ idx' = idx
            /\ Await("loadCandidate", "loadCandidate", imageUrls[idx])
            /\ UNCHANGED <<updatedBody, replacementCount, result, response>>
       ELSE NextCandidate(matches)
    /\ UNCHANGED <<req, stored, article, imageUrls, answer>>

\* Step 4, loadImageAsBase64(imageUrl) throws: the catch of the loop body
\* warns and the loop goes on.
LoadCandidateFail(f) ==
    /\ pc = "loadCandidate"
    /\ calls' = Append(calls, Call("loadCandidate", imageUrls[idx], FALSE))
    /\ matches' = matches
    /\ NextCandidate(matches)
    /\ UNCHANGED <<req, stored, article, imageUrls, answer>>

\* Variant of the loop body that asks the comparison and, without awaiting
\* it, begins to load the image of the next url.
LoadCandidateOkPrefetch ==
    /\ pc = "loadCandidate"
    /\ calls' = Append(calls, Call("loadCandidate", imageUrls[idx], TRUE))
    /\ pc' = "compare"
    /\ pending' = {Request("compare", imageUrls[idx])}
                    \cup {Request("loadCandidate", imageUrls[k]) :
                            k \in {idx + 1} \cap (1..Len(imageUrls))}
    /\ UNCHANGED <<req, stored, article, imageUrls, idx, matches, updatedBody,
                   replacementCount, result, response, answer>>

\* Step 4, the image of the candidate is loaded and the comparison is asked.
LoadCandidateOk ==
    /\ pc = "loadCandidate"
    /\ calls' = Append(calls, Call("loadCandidate", imageUrls[idx], TRUE))
    /\ Await("compare", "compare", imageUrls[idx])
    /\ UNCHANGED <<req, stored, article, imageUrls, idx, matches, updatedBody,
                   replacementCount, result, response, answer>>

----------------------------------------------------------------------------
(* compareImagesWithAI                                                     *)

WhiteSpace == {" ", "\n", "\t", "\r"}

\* String.prototype.trim
RECURSIVE Trim(_)
Trim(s) ==
    IF s = <<>> THEN s
    ELSE IF s[1] \in WhiteSpace THEN Trim(Tail(s))
    ELSE IF s[Len(s)] \in WhiteSpace THEN Trim(SubSeq(s, 1, Len(s) - 1))
    ELSE s

\* Variant of compareImagesWithAI that takes any answer beginning with
\* "true" for a match.
CompareByPrefix(outcome) ==
    /\ outcome.kind = "text"
    /\ IsAt(LowerSeq(Trim(outcome.text)), 1, <<"t", "r", "u", "e">>)

\* compareImagesWithAI: the trimmed, lower-cased text must be 'true'; a fetch
\* that rejects, or a document without content[0].text, throws inside the
\* try and the catch returns false.
compareImagesWithAI(outcome) ==
    /\ outcome.kind = "text"
    /\ LowerSeq(Trim(outcome.text)) = <<"t", "r", "u", "e">>

\* Variant of the loop body that pushes the url of the reference image.
PushReference(ms, imageUrl, isMatch) ==
    IF isMatch THEN Append(ms, req.old_image_url) ELSE ms

\* if (isMatch) matches.push(imageUrl)
PushIfMatch(ms, imageUrl, isMatch) ==
    IF isMatch THEN Append(ms, imageUrl) ELSE ms

\* The comparison service has answered, or the fetch has rejected:
\* compareImagesWithAI is resumed from its await.
CompareAnswered(outcome) ==
    /\ pc = "compare"
    /\ answer' = outcome
    /\ pc' = "compared"
    /\ UNCHANGED <<req, stored, article, imageUrls, idx, matches, updatedBody,
                   replacementCount, result, response, calls, pending>>

\* Step 4, compareImagesWithAI returns and the iteration ends.
Compare ==
    /\ pc = "compared"
    /\ calls' = Append(calls, Call("compare", imageUrls[idx],
                                   answer.kind = "text"))
    /\ matches' = PushIfMatch(matches, imageUrls[idx],
                              compareImagesWithAI(answer))
    /\ answer' = NoAnswer
    /\ NextCandidate(matches')
    /\ UNCHANGED <<req, stored, article, imageUrls>>

----------------------------------------------------------------------------
(* Step 6: updateIntercomArticle                                           *)

\* The store takes the body, and the summary of the success is returned.
UpdateOk ==
    /\ pc = "update"
    /\ calls' = Append(calls, Call("updateArticle", updatedBody, TRUE))
    /\ stored' = updatedBody
    /\ Finish(Summary(TRUE, "Successfully replaced", Len(imageUrls),
                      Len(matches), replacementCount))
    /\ UNCHANGED <<req, article, imageUrls, idx, matches, updatedBody,
                   replacementCount, answer>>

\* Variant of step 6 that returns the summary of the success although
\* updateIntercomArticle threw.
UpdateFailSwallowed(f) ==
    /\ pc = "update"
    /\ calls' = Append(calls, Call("updateArticle", updatedBody, FALSE))
    /\ stored' = stored
    /\ Finish(Summary(TRUE, "Successfully replaced", Len(imageUrls),
                      Len(matches), replacementCount))
    /\ UNCHANGED <<req, article, imageUrls, idx, matches, updatedBody,
                   replacementCount, answer>>

\* updateIntercomArticle throws.  A store that answers with an error status
\* has kept its body; when fetch rejects, the request may or may not have
\* been applied.
UpdateFail(f) ==
    /\ pc = "update"
    /\ calls' = Append(calls, Call("updateArticle", updatedBody, FALSE))
    /\ stored' \in (IF f = "status" THEN {stored} ELSE {stored, updatedBody})
    /\ Finish(Raised(FailureMessage(f, "Failed to update article")))
    /\ UNCHANGED <<req, article, imageUrls, idx, matches, updatedBody,
                   replacementCount, answer>>

----------------------------------------------------------------------------

Next ==
    \/ \E r \in Requests : Submit(r)
    \/ \E f \in Failures : FetchArticleFail(f)
    \/ FetchArticleNull
    \/ FetchArticleOk
    \/ \E f \in Failures : LoadReferenceFail(f)
    \/ LoadReferenceOk
    \/ \E f \in Failures : LoadCandidateFail(f)
    \/ LoadCandidateOk
    \/ \E o \in Outcomes : CompareAnswered(o)
    \/ Compare
    \/ \E f \in Failures : UpdateFail(f)
    \/ UpdateOk

Spec == Init /\ [][Next]_vars

----------------------------------------------------------------------------
(* Properties                                                              *)

LastCall == calls[Len(calls)]

\* The calls of one kind, in the order they were made.
CallsOf(op) == SelectSeq(calls, LAMBDA c : c.op = op)

Args(cs) == [i \in 1..Len(cs) |-> cs[i].arg]

NoDuplicates(q) == \A i, j \in 1..Len(q) : q[i] = q[j] => i = j

\* The for..of loop is over: every iteration begun has ended.
LoopOver == idx > Len(imageUrls)

\* C1: a candidate whose image fails to load is never among the matches, its
\* failure is not what the run throws, and the loop goes on after it: the
\* candidates are loaded one after the other in the order of extraction, each
\* loaded one is compared next, and no run ends before the last of them.
C1_CandidateFailureIsolated ==
    LET loads == CallsOf("loadCandidate")
    IN  /\ \A i \in 1..Len(loads) :
              ~loads[i].ok => loads[i].arg \notin Range(matches)
        /\ result.kind = "raised" => LastCall.op # "loadCandidate"
        /\ Len(loads) <= Len(imageUrls)
        /\ Args(loads) = SubSeq(imageUrls, 1, Len(loads))
        /\ pc = "loadCandidate" => idx = Len(loads) + 1 /\ idx <= Len(imageUrls)
        /\ (loads # <<>> /\ pc \in {"update", "responded"})
              => Len(loads) = Len(imageUrls)
        /\ \A i \in 1..Len(calls) :
              (calls[i].op = "loadCandidate" /\ calls[i].ok)
                  => IF i = Len(calls) THEN pc \in {"compare", "compared"}
                     ELSE /\ calls[i + 1].op = "compare"
                          /\ calls[i + 1].arg = calls[i].arg

\* One failing candidate among three, the one after it a match.
C1_Witness ==
    /\ result.kind = "summary"
    /\ Len(imageUrls) >= 3
    /\ \E i, j \in 1..Len(calls) :
          /\ i < j
          /\ calls[i].op = "loadCandidate" /\ ~calls[i].ok
          /\ calls[j].op = "compare" /\ calls[j].arg \in Range(matches)

\* C2: a returned summary has matchesFound <= imagesFound, and replacements
\* is 0 exactly when matchesFound is 0.
C2_SummaryCounts ==
    result.kind = "summary"
        => /\ result.matchesFound <= result.imagesFound
           /\ result.replacements = 0 <=> result.matchesFound = 0

\* A summary with two matches, the first a substring of the second, so that
\* the second has no occurrence left when its turn comes.
C2_Witness ==
    /\ result.kind = "summary"
    /\ result.matchesFound >= 2
    /\ result.replacements >= 1
    /\ Len(MatchStarts(stored, RegExpAtoms(escapeRegExp(matches[2])), 1)) = 0

\* Number of occurrences of the literal lit in s from position from on, found
\* left to right without overlap, by comparing characters.
RECURSIVE CountLiteral(_, _, _)
CountLiteral(s, lit, from) ==
    LET starts == {p \in from..Len(s) : IsAt(s, p, lit)}
    IN  IF starts = {} THEN 0
        ELSE 1 + CountLiteral(s, lit, SetMin(starts) + Len(lit))

RECURSIVE SumOfOccurrences(_, _)
SumOfOccurrences(body, ms) ==
    IF ms = <<>> THEN 0
    ELSE CountLiteral(body, ms[1], 1) + SumOfOccurrences(body, Tail(ms))

\* C3: replacementCount is the sum, over the matches, of the occurrences of
\* each one in the original article body.
C3_CountOfOriginalOccurrences ==
    (pc = "update" \/ result.success)
        => replacementCount = SumOfOccurrences(article[1], matches)

\* C4 as claimed: the run throws only when the article cannot be retrieved.
C4_RaisesOnlyWithoutArticle == result.kind = "raised" => article = <<>>

\* The last call is the one that the run cannot go on without: the article
\* that is not there, the reference image, or the update.
FatalCall ==
    /\ calls # <<>>
    /\ \/ LastCall.op = "getArticle" /\ article = <<>>
       \/ LastCall.op = "loadReference" /\ ~LastCall.ok
       \/ LastCall.op = "updateArticle" /\ ~LastCall.ok

\* C4 as amended: the run throws exactly when the article cannot be
\* retrieved, the reference image cannot be loaded or the update fails; every
\* other run that ends returns a summary.
C4_RaisesOnlyOnFatalCall ==
    /\ result.kind = "raised" <=> (pc = "responded" /\ FatalCall)
    /\ (pc = "responded" /\ calls # <<>> /\ ~FatalCall)
          => result.kind = "summary"

\* The update throws after a candidate failed to load and did not stop the run.
C4_Witness ==
    /\ result.kind = "raised"
    /\ LastCall.op = "updateArticle"
    /\ \E i \in 1..Len(calls) : calls[i].op = "loadCandidate" /\ ~calls[i].ok

\* C5: a fetched body without image urls ends the run at once with the
\* summary of nothing found, the fetch of the article its only remote call.
C5_NoImagesNoCalls ==
    (article # <<>> /\ imageUrls = <<>>)
        => /\ pc = "responded"
           /\ result = Summary(FALSE, "No images found in the article", 0, 0, 0)
           /\ Len(calls) = 1
           /\ calls[1].op = "getArticle"

\* A body that is not empty and holds no image url.
C5_Witness ==
    /\ article # <<>>
    /\ article[1] # <<>>
    /\ imageUrls = <<>>
    /\ response.canvas = "success"

\* C6: success is returned only after one call of updateIntercomArticle, the
\* last call of the run, made after the loop with the body rewritten for all
\* the matches, which succeeded.
C6_SuccessOnlyAfterUpdate ==
    result.success
        => LET ups == CallsOf("updateArticle")
           IN  /\ Len(ups) = 1
               /\ ups[1].ok
               /\ ups[1] = LastCall
               /\ ups[1].arg
                      = Rewrite(article[1], matches, req.new_image_url).updatedBody
               /\ stored = ups[1].arg
               /\ LoopOver
               /\ pc = "responded"

C6_Witness ==
    /\ result.success
    /\ response.header = "Success!"
    /\ stored # article[1]

\* C7: when the loop ends without a match, the run returns the summary of no
\* match with imagesFound the number of urls, never calls
\* updateIntercomArticle, and the store keeps the body it had.
C7_NoMatchNoUpdate ==
    (Len(imageUrls) >= 1 /\ LoopOver /\ matches = <<>>)
        => /\ pc = "responded"
           /\ result = Summary(FALSE, "No matching images found in the article",
                               Len(imageUrls), 0, 0)
           /\ CallsOf("updateArticle") = <<>>
           /\ stored = article[1]

\* Two urls, one that failed to load and one judged different.
C7_Witness ==
    /\ Len(imageUrls) >= 2
    /\ LoopOver
    /\ matches = <<>>
    /\ \E i, j \in 1..Len(calls) :
          /\ calls[i].op = "loadCandidate" /\ ~calls[i].ok
          /\ calls[j].op = "compare" /\ calls[j].ok

\* Number of image tags of the markup whose url is url.
TagsWith(html, url) ==
    Cardinality({k \in DOMAIN ExecAll(html, 1) : ExecAll(html, 1)[k] = url})

\* C8: after a successful run every extracted url that is not among the
\* matches is the url of as many image tags of the stored body as it was of
\* the original body: none of its tags was rewritten.
C8_UnmatchedUntouched ==
    result.success
        => \A u \in Range(imageUrls) \ Range(matches) :
              TagsWith(stored, u) >= TagsWith(article[1], u)

RECURSIVE IsSubsequence(_, _)
IsSubsequence(a, b) ==
    IF a = <<>> THEN TRUE
    ELSE IF b = <<>> THEN FALSE
    ELSE IF a[1] = b[1] THEN IsSubsequence(Tail(a), Tail(b))
    ELSE IsSubsequence(a, Tail(b))

\* C9: matches has no duplicate and is a subsequence of imageUrls, in every
\* state: the urls pushed are urls of the iterations begun, in their order.
C9_MatchesSubsequence ==
    /\ NoDuplicates(matches)
    /\ IsSubsequence(matches, imageUrls)
    /\ \A i \in 1..Len(matches) :
          \E k \in 1..Len(imageUrls) : k <= idx /\ imageUrls[k] = matches[i]

\* The first and the third of three urls matched, the loop over.
C9_Witness ==
    /\ Len(imageUrls) = 3
    /\ LoopOver
    /\ matches = <<imageUrls[1], imageUrls[3]>>

FirstIndex(q, x) == SetMin({i \in 1..Len(q) : q[i] = x})

\* out holds what raw holds, each once, ordered by first occurrence in raw.
FirstSeenOrder(raw, out) ==
    /\ NoDuplicates(out)
    /\ Range(out) = Range(raw)
    /\ \A i, j \in 1..Len(out) :
          i < j => FirstIndex(raw, out[i]) < FirstIndex(raw, out[j])

\* C10: extractImageUrls returns the urls matched in the markup, each once,
\* in the order of their first match: so for what step 2 has just extracted
\* from the body fetched, and so for the body that a run has stored.
C10_ExtractFirstSeenOrder ==
    /\ (article # <<>> /\ Len(calls) = 1)
          => FirstSeenOrder(ExecAll(article[1], 1), imageUrls)
    /\ result.success
          => FirstSeenOrder(ExecAll(stored, 1), extractImageUrls(stored))

\* A url matched a second time after another one.
C10_Witness ==
    /\ article # <<>>
    /\ Len(calls) = 1
    /\ LET raw == ExecAll(article[1], 1)
       IN  /\ Len(raw) = 3
           /\ raw[1] = raw[3]
           /\ raw[1] # raw[2]
           /\ imageUrls = <<raw[1], raw[2]>>

\* C11: once the rewrite is done, a matched url is absent from the urls
\* extracted from the updated body exactly when it differs from the new url.
C11_MatchedAbsentUnlessReplacement ==
    (pc = "update" \/ result.success)
        => \A m \in Range(matches) :
              m \notin Range(extractImageUrls(updatedBody))
                  <=> m # req.new_image_url

\* The load of the reference image has failed.
ReferenceFailed ==
    \E i \in 1..Len(calls) : calls[i].op = "loadReference" /\ ~calls[i].ok

\* C12: when the reference image cannot be loaded the run throws at once, to
\* the error canvas: the calls of the run are the fetch of the article and
\* that load, no candidate is loaded, nothing compared, nothing updated, and
\* none is pending.  A run never throws on the load or the comparison of a
\* candidate.
C12_ReferenceFailureRaises ==
    /\ ReferenceFailed
          => /\ pc = "responded"
             /\ result.kind = "raised"
             /\ response.canvas = "error"
             /\ Len(calls) = 2
             /\ calls[1].op = "getArticle"
             /\ pending = {}
             /\ stored = article[1]
    /\ result.kind = "raised" => LastCall.op \notin {"loadCandidate", "compare"}

\* The reference image of an article with two urls fails to load.
C12_Witness ==
    /\ ReferenceFailed
    /\ Len(imageUrls) >= 2
    /\ response.text = "Failed to load image"

\* The calls of updateIntercomArticle begun so far, ended or not.
UpdatesBegun ==
    Len(CallsOf("updateArticle"))
        + Cardinality({r \in pending : r.op = "updateArticle"})

\* C13: updateIntercomArticle is called at most once, after the last
\* iteration of the loop, with the body rewritten for all the matches.  When
\* the store rejects the write the run throws and the store has the body it
\* had; the store never has anything but that body or the one fully rewritten.
C13_UpdateOnceAfterRewrite ==
    /\ UpdatesBegun <= 1
    /\ UpdatesBegun = 1
          => /\ LoopOver
             /\ Len(CallsOf("loadCandidate")) = Len(imageUrls)
             /\ updatedBody
                    = Rewrite(article[1], matches, req.new_image_url).updatedBody
             /\ \A r \in pending : r.arg = updatedBody
             /\ \A i \in 1..Len(calls) :
                   calls[i].op = "updateArticle" => calls[i].arg = updatedBody
    /\ result.message = "Failed to update article"
          => /\ result.kind = "raised"
             /\ response.canvas = "error"
             /\ stored = article[1]
    /\ (article # <<>> /\ stored # article[1])
          => UpdatesBegun = 1 /\ stored = updatedBody

\* The store rejects a body that differs from the one it has.
C13_Witness ==
    /\ result.message = "Failed to update article"
    /\ updatedBody # article[1]
    /\ stored = article[1]
    /\ Len(matches) >= 2

\* The outcome is a text that reads true between white space, in any case.
SaysTrue(outcome) ==
    /\ outcome.kind = "text"
    /\ \E p \in 1..Len(outcome.text) :
          /\ IsAtCI(outcome.text, p, <<"t", "r", "u", "e">>)
          /\ \A i \in 1..Len(outcome.text) :
                (i < p \/ i > p + 3) => outcome.text[i] \in WhiteSpace

\* C14: when compareImagesWithAI returns, the url is pushed exactly if the
\* service answered a text that is 'true' once trimmed and lower-cased; for
\* any other text, a document without text or a fetch that rejected, nothing
\* is pushed; in no case does the run throw, and the loop goes on to load the
\* next url.
C14_OnlyTrueIsMatch ==
    [][pc = "compared"
          => /\ matches' = IF SaysTrue(answer)
                           THEN Append(matches, imageUrls[idx])
                           ELSE matches
             /\ result'.kind # "raised"
             /\ idx' = idx + 1
             /\ idx < Len(imageUrls)
                   => /\ pc' = "loadCandidate"
                      /\ pending'
                             = {Request("loadCandidate", imageUrls[idx + 1])}]_vars

\* A comparison that failed, its url not pushed, and the next url loaded.
C14_Witness ==
    \E i, j \in 1..Len(calls) :
        /\ i < j
        /\ calls[i].op = "compare" /\ ~calls[i].ok
        /\ calls[i].arg \notin Range(matches)
        /\ calls[j].op = "loadCandidate" /\ calls[j].arg # calls[i].arg

\* The orderings of the sequence q.
Orderings(q) ==
    LET perms == {f \in [1..Len(q) -> 1..Len(q)] :
                     \A i, j \in 1..Len(q) : f[i] = f[j] => i = j}
    IN  {[i \in 1..Len(q) |-> q[f[i]]] : f \in perms}

\* C15: the rewrite step gives the same updated body and the same total of
\* occurrences for every ordering of the matched urls.
C15_RewriteOrderIndependent ==
    pc = "update"
        => \A ms \in Orderings(matches) :
              Rewrite(article[1], ms, req.new_image_url)
                  = [updatedBody |-> updatedBody,
                     replacementCount |-> replacementCount]

\* The load of the image of url u has ended and, if it succeeded, so has the
\* comparison of that image.
CandidateDone(u) ==
    \E i \in 1..Len(calls) :
        /\ calls[i].op = "loadCandidate" /\ calls[i].arg = u
        /\ calls[i].ok
              => \E j \in (i + 1)..Len(calls) :
                    calls[j].op = "compare" /\ calls[j].arg = u

\* C16: at most one remote call is outstanding at any time, and while the
\* load or the comparison of the image of a url is outstanding, the load of
\* every earlier url has ended, and so has its comparison unless the load
\* failed.
C16_OneCallAtATime ==
    /\ Cardinality(pending) <= 1
    /\ \A r \in pending :
          r.op \in {"loadCandidate", "compare"}
              => \E k \in 1..Len(imageUrls) :
                    /\ r.arg = imageUrls[k]
                    /\ \A j \in 1..(k - 1) : CandidateDone(imageUrls[j])
                    /\ r.op = "compare"
                          => Call("loadCandidate", r.arg, TRUE) \in Range(calls)

\* The load of the third url is outstanding, after a failed load and a
\* comparison of the urls before it.
C16_Witness ==
    /\ Len(imageUrls) >= 3
    /\ pending = {Request("loadCandidate", imageUrls[3])}
    /\ \E i \in 1..Len(calls) : calls[i].op = "loadCandidate" /\ ~calls[i].ok
    /\ CallsOf("compare") # <<>>

\* The handler has run to its end: nothing is awaited any more.
HandlerEnded == pc # "idle" /\ pending = {}

\* C17: once the handler of a request has ended, it has sent a summary
\* canvas, an error canvas or the initial canvas.
C17_AlwaysACanvas ==
    HandlerEnded => response.canvas \in {"success", "error", "initial"}

\* One of article_id, old_image_url, new_image_url is absent from the
\* request or empty.
FieldMissing ==
    \/ ~req.has_input_values
    \/ req.article_id = <<>>
    \/ req.old_image_url = <<>>
    \/ req.new_image_url = <<>>

\* C18: remote calls are made only for a request with its three fields
\* present and non-empty, and a process_button request with a field missing
\* or empty is answered with the error canvas, no remote call made.
C18_ValidatedBeforeRun ==
    /\ (calls # <<>> \/ pending # {}) => ~FieldMissing
    /\ (pc # "idle" /\ req.component_id = "process_button" /\ FieldMissing)
          => /\ response = ValidationCanvas
             /\ calls = <<>> /\ pending = {}

\* How many remote calls op with argument arg were begun, ended or not.
Begun(op, arg) ==
    Cardinality({i \in 1..Len(calls) : calls[i].op = op /\ calls[i].arg = arg})
        + Cardinality({r \in pending : r.op = op /\ r.arg = arg})

\* The handler has called processImageReplacement.
RunStarted ==
    /\ pc \notin {"idle", "unhandled"}
    /\ req.component_id = "process_button"
    /\ ~FieldMissing

\* C19: in a run the article is fetched exactly once, the reference image at
\* most once and the image of each extracted url at most once; an image is
\* compared at most once, only after its own load succeeded, so that there
\* are never more comparisons than successful loads of extracted urls.
C19_NoRetry ==
    /\ RunStarted
          => /\ Begun("getArticle", req.article_id) = 1
             /\ \A i \in 1..Len(calls) :
                   calls[i].op = "getArticle" => calls[i].arg = req.article_id
    /\ ~RunStarted => calls = <<>> /\ pending = {}
    /\ Begun("loadReference", req.old_image_url) <= 1
    /\ \A i \in 1..Len(calls) :
          /\ calls[i].op = "loadReference" => calls[i].arg = req.old_image_url
          /\ calls[i].op \in {"loadCandidate", "compare"}
                => calls[i].arg \in Range(imageUrls)
    /\ \A u \in Range(imageUrls) :
          /\ Begun("loadCandidate", u) <= 1
          /\ Begun("compare", u) <= 1
          /\ Begun("compare", u) = 1
                => Call("loadCandidate", u, TRUE) \in Range(calls)
    /\ Len(CallsOf("compare")) + Cardinality({r \in pending : r.op = "compare"})
          <= Len(SelectSeq(calls, LAMBDA c : c.op = "loadCandidate" /\ c.ok))

\* A finished run in which the load of one url failed and was not repeated,
\* and the image of another url was compared.
C19_Witness ==
    /\ result.kind = "summary"
    /\ \E i \in 1..Len(calls) : calls[i].op = "loadCandidate" /\ ~calls[i].ok
    /\ CallsOf("compare") # <<>>
    /\ Len(CallsOf("compare")) < Len(imageUrls)

====
